---------------------------- MODULE Spec2Model ----------------------------
(***************************************************************************)
(* Model of scripts/analyze.py (MultiplierAnalyzer): the Yosys report      *)
(* parser, the area / timing / power estimators, the result store, the     *)
(* comparison report and the analysis run that drives them.                *)
(*                                                                         *)
(* Numbers.  Python floats are modelled by exact decimal arithmetic on     *)
(* scaled integers; the rounding error of a double (below 1e-15 relative)  *)
(* is not modelled.                                                        *)
(*   estimated_area_ge        in 0.01 GE     (1.33 GE  is 133)             *)
(*   critical_path_delay_ns   in 0.01 ns     (9.6 ns   is 960)             *)
(*   estimated_power_mw       in 0.00001 mW  (15.0 mW  is 1500000)         *)
(*   max_frequency_mhz        a fraction [num, den] of MHz                 *)
(*                                                                         *)
(* Text.  The tool's stdout is a sequence of lines.  A line is a record    *)
(*   kind "hier"     the line  === design hierarchy ===  at column 0       *)
(*   kind "hier_in"  the same heading text not at the start of its line    *)
(*                   (indented), so it is not preceded by a line break     *)
(*   kind "sep"      another line that starts with ===  (=== top ===)      *)
(*   kind "blank"    an empty line                                         *)
(*   kind "count"    the line  <n> <tok>  (possibly indented), written     *)
(*                   -<n> <tok> when neg is TRUE                           *)
(***************************************************************************)
EXTENDS Integers, Sequences, FiniteSets, TLC

VARIABLES
    pc,         \* position of analyze_all
    has_yosys,  \* what check_yosys returned ("unknown" before the call)
    proc,       \* per variant, how its subprocess.run ended and its stdout
    results,    \* self.results: the dict, as its items in insertion order
    report,     \* what generate_report did on its last call
    saved,      \* the documents save_results wrote, in order
    text,       \* parser input: output
    parsed,     \* parser output, <<>> before the call
    rec,        \* estimator input
    est         \* estimator output, <<>> before the call

vars == <<pc, has_yosys, proc, results, report, saved, text, parsed, rec, est>>

-----------------------------------------------------------------------------
(* Bounds *)

MaxLines == 4
MaxCount == 2

MaxCells == 3

MaxGates == 1

-----------------------------------------------------------------------------
(* Helpers *)

Min(S) == CHOOSE x \in S : \A y \in S : x <= y

Max(S) == CHOOSE x \in S : \A y \in S : x >= y

-----------------------------------------------------------------------------
(* The record type *)

GateFields ==
    <<"and_gates", "or_gates", "xor_gates", "not_gates", "nand_gates",
      "nor_gates", "xnor_gates", "mux_gates", "add_cells">>

StructuralFields ==
    {"total_cells", "wires", "public_wires"} \cup {GateFields[i] : i \in 1..Len(GateFields)}

SynthesisResults(name) ==
    [name |-> name,
     total_cells |-> 0, wires |-> 0, public_wires |-> 0,
     memories |-> 0, processes |-> 0,
     and_gates |-> 0, or_gates |-> 0, xor_gates |-> 0, not_gates |-> 0,
     nand_gates |-> 0, nor_gates |-> 0, xnor_gates |-> 0, mux_gates |-> 0,
     add_cells |-> 0,
     critical_path_delay_ns |-> 0,
     estimated_area_ge |-> 0,
     estimated_power_mw |-> 0,
     max_frequency_mhz |-> [num |-> 0, den |-> 1],
     simulation_time_ms |-> 0]

-----------------------------------------------------------------------------
(* parse_yosys_output *)

HeadingLine(k) == [kind |-> k, neg |-> FALSE, n |-> 0, tok |-> ""]

CountLine(neg, n, tok) == [kind |-> "count", neg |-> neg, n |-> n, tok |-> tok]

\* The text '=== design hierarchy ===' occurs in the line.
IsHierarchyHeading(l) == l.kind \in {"hier", "hier_in"}

\* The line break before this line is followed by '===': the lookahead \n===.
ClosesSection(l) == l.kind \in {"hier", "sep"}

\* re.finditer: the matches from line pos on, left to right, not overlapping.
\* A match runs from a heading up to the line before the next line that
\* starts with '===', or to the end of the text.
RECURSIVE finditer(_, _)
finditer(output, pos) ==
    LET starts == {i \in pos..Len(output) : IsHierarchyHeading(output[i])}
    IN  IF starts = {} THEN <<>>
        ELSE LET first == Min(starts)
                 closers == {j \in (first + 1)..Len(output) : ClosesSection(output[j])}
                 last == IF closers = {} THEN Len(output) ELSE Min(closers) - 1
             IN  <<SubSeq(output, first, last)>> \o finditer(output, last + 1)

hierarchy_sections(output) == finditer(output, 1)

\* hierarchy_sections[0]: the first section instead of the last.
hierarchy_text_first(sections) == sections[1]

\* hierarchy_sections[-1].group(0)
hierarchy_text(sections) == sections[Len(sections)]

\* re.search(r'(\d+)\s+<word>', hierarchy_text): the first place where digits,
\* blanks and the word follow one another; a sign before the digits is not
\* part of the match.  <<>> when there is none.
search(word, section) ==
    LET hits == {k \in 1..Len(section) :
                    section[k].kind = "count" /\ section[k].tok = word}
    IN  IF hits = {} THEN <<>> ELSE <<section[Min(hits)].n>>

\* The pattern with (-?\d+): a signed count is taken as it stands.
match_signed(line) ==
    IF line.kind = "count" /\ line.tok # "" /\ line.tok \notin {"cells", "wires", "public wires"}
    THEN <<IF line.neg THEN -line.n ELSE line.n, line.tok>>
    ELSE <<>>

\* re.match(r'(\d+)\s+(\$_[A-Z]+_|\$\w+)', line): the line, stripped, starts
\* with digits, then blanks, then a '$' token.  <<count, gate_type>> or <<>>.
match(line) ==
    IF line.kind = "count" /\ ~line.neg /\ line.tok # "" /\ line.tok \notin {"cells", "wires", "public wires"}
    THEN <<line.n, line.tok>>
    ELSE <<>>

\* The if / elif chain over gate_type.
gate_field(gate_type) ==
    CASE gate_type = "$_AND_"  -> <<"and_gates">>
      [] gate_type = "$_OR_"   -> <<"or_gates">>
      [] gate_type = "$_XOR_"  -> <<"xor_gates">>
      [] gate_type = "$_NOT_"  -> <<"not_gates">>
      [] gate_type = "$_NAND_" -> <<"nand_gates">>
      [] gate_type = "$_NOR_"  -> <<"nor_gates">>
      [] gate_type = "$_XNOR_" -> <<"xnor_gates">>
      [] gate_type = "$_MUX_"  -> <<"mux_gates">>
      [] gate_type = "$add"    -> <<"add_cells">>
      [] OTHER                 -> <<>>

\* One pass of the loop over hierarchy_text.split('\n').
scan_line(result, line) ==
    LET m == match(line)
    IN  IF line.kind = "blank" \/ m = <<>> THEN result
        ELSE LET f == gate_field(m[2])
             IN  IF f = <<>> THEN result ELSE [result EXCEPT ![f[1]] = m[1]]

RECURSIVE scan_lines(_, _, _)
scan_lines(result, section, k) ==
    IF k > Len(section) THEN result
    ELSE scan_lines(scan_line(result, section[k]), section, k + 1)

set_if_found(result, field, m) ==
    IF m = <<>> THEN result ELSE [result EXCEPT ![field] = m[1]]

parse_yosys_output(name, output) ==
    LET result == SynthesisResults(name)
        sections == hierarchy_sections(output)
    IN  IF sections = <<>> THEN result
        ELSE LET ht == hierarchy_text(sections)
                 r1 == set_if_found(result, "total_cells", search("cells", ht))
                 r2 == set_if_found(r1, "wires", search("wires", ht))
                 r3 == set_if_found(r2, "public_wires", search("public wires", ht))
             IN  scan_lines(r3, ht, 1)

-----------------------------------------------------------------------------
(* calculate_area, estimate_critical_path, estimate_power *)

\* Python's max and min of two numbers.
max(a, b) == IF a >= b THEN a ELSE b

min(a, b) == IF a <= b THEN a ELSE b

known_gates(result) ==
    result.and_gates + result.or_gates + result.xor_gates + result.not_gates
    + result.nand_gates + result.nor_gates + result.xnor_gates
    + result.mux_gates + result.add_cells

\* The weighted sum of the classified counts, in 0.01 GE.
classified_area(result) ==
    result.and_gates * 133 + result.or_gates * 133 + result.xor_gates * 267
    + result.not_gates * 67 + result.nand_gates * 100 + result.nor_gates * 100
    + result.xnor_gates * 267 + result.mux_gates * 200 + result.add_cells * 800

\* other_cells without the max(0, ...).
area_other_cells_unclamped(result) == result.total_cells - known_gates(result)

\* other_cells of calculate_area.
area_other_cells(result) == max(0, result.total_cells - known_gates(result))

calculate_area(result) == classified_area(result) + area_other_cells(result) * 200

\* The weighted sum of the classified counts, in units of cap_per_gate.
classified_cap(result) ==
    result.and_gates * 2 + result.or_gates * 2 + result.xor_gates * 4
    + result.not_gates * 1 + result.nand_gates * 2 + result.nor_gates * 2
    + result.xnor_gates * 4 + result.mux_gates * 3 + result.add_cells * 10

\* other_cells of estimate_power.
power_other_cells(result) == max(0, result.total_cells - known_gates(result))

\* activity * total_cap * voltage^2 * frequency * 1000 with activity 0.2,
\* cap_per_gate 1e-15, voltage 1.0 and frequency 100e6 is 0.00002 mW for each
\* unit of capacitance: 2 of the model's units; an other cell holds 2.5 units
\* of capacitance, 5 of the model's units.
estimate_power(result) == classified_cap(result) * 2 + power_other_cells(result) * 5

\* math.ceil(math.log(width) / math.log(1.5)): the least L with 1.5^L >= width,
\* that is 3^L >= width * 2^L.
RECURSIVE ceil_log_1_5(_, _, _)
ceil_log_1_5(L, pow3, rhs) ==
    IF pow3 >= rhs THEN L ELSE ceil_log_1_5(L + 1, pow3 * 3, rhs * 2)

tree_levels == ceil_log_1_5(0, 1, 32)

\* A delay summed bottom-up from the cell count instead of taken by name.
estimate_critical_path_by_cells(result) ==
    IF result.name = "Classical" THEN 32 * 30
    ELSE result.total_cells * 25 + 200

\* In 0.01 ns: 0.3 ns a stage, 0.25 ns a level, 2.0 ns the final adder, 5.0 ns
\* the default.
estimate_critical_path(result) ==
    IF result.name = "Classical" THEN 32 * 30
    ELSE IF result.name = "Wallace" THEN tree_levels * 25 + 200
    ELSE IF result.name = "Dadda" THEN tree_levels * 25 + 200
    ELSE 500

\* 1 / critical_path_delay_ns: the period inverted without the ns-to-MHz factor.
frequency_of_per_ns(delay) == [num |-> 100, den |-> delay]

\* 1000 / critical_path_delay_ns, as a fraction of MHz: the delay is in 0.01 ns.
frequency_of(delay) == [num |-> 100000, den |-> delay]

\* synthesize_design, from the parsed record to the record it returns.
fill_estimates(parsed_result) ==
    LET r1 == [parsed_result EXCEPT !.estimated_area_ge = calculate_area(parsed_result)]
        r2 == [r1 EXCEPT !.critical_path_delay_ns = estimate_critical_path(r1)]
        r3 == [r2 EXCEPT !.estimated_power_mw = estimate_power(r2)]
    IN  IF r3.critical_path_delay_ns > 0
        THEN [r3 EXCEPT !.max_frequency_mhz = frequency_of(r3.critical_path_delay_ns)]
        ELSE r3

-----------------------------------------------------------------------------
(* self.results: a dict, kept as its items in insertion order; the key of an
   item is the name of its record *)

has(store, name) == \E i \in 1..Len(store) : store[i].name = name

get(store, name) == store[CHOOSE i \in 1..Len(store) : store[i].name = name]

\* self.results = {name: result}: the assignment replaces the dict.
put_fresh(store, name, result) == <<result>>

\* self.results[name] = result: a new key goes last, a known key keeps its place.
put(store, name, result) ==
    IF has(store, name)
    THEN [i \in 1..Len(store) |-> IF store[i].name = name THEN result ELSE store[i]]
    ELSE Append(store, result)

keys(store) == {store[i].name : i \in 1..Len(store)}

values(store, field) == {store[i][field] : i \in 1..Len(store)}

\* The last item whose key value is the least (a scan that replaces on <=).
min_item_last(store, field) ==
    LET least == Min(values(store, field))
    IN  store[Max({i \in 1..Len(store) : store[i][field] = least})].name

\* min(self.results.items(), key=...): the first item, in the dict's order,
\* whose key value is the least.
min_item(store, field) ==
    LET least == Min(values(store, field))
    IN  store[Min({i \in 1..Len(store) : store[i][field] = least})].name

-----------------------------------------------------------------------------
(* generate_report and save_results *)

\* a / b rounded to an integer, halves to even, as a format spec rounds the
\* exact quotient; b > 0.
round_div(a, b) ==
    LET abs == IF a < 0 THEN -a ELSE a
        q == abs \div b
        r == abs % b
        up == IF 2 * r > b THEN 1 ELSE IF 2 * r < b THEN 0 ELSE q % 2
    IN  IF a < 0 THEN -(q + up) ELSE q + up

\* f"{a / b:.2f}", in hundredths.
fmt2(a, b) == round_div(100 * a, b)

\* f"{a / b * 100:.1f}", in tenths of a percent.
fmt_pct1(a, b) == round_div(1000 * a, b)

CanonicalOrder == <<"Classical", "Dadda", "Wallace">>

Variants == {"Classical", "Dadda", "Wallace"}

NoReport ==
    [outcome |-> "none", raised_at |-> 0,
     area_rel |-> <<>>, speedup |-> <<>>, power_rel |-> <<>>,
     wallace_vs_classical |-> <<>>, dadda_vs_classical |-> <<>>,
     wallace_vs_dadda |-> <<>>, pair_reads |-> {},
     best_speed |-> <<>>, best_area |-> <<>>, best_power |-> <<>>,
     recommendation |-> <<>>]

raise(r, line) == [r EXCEPT !.outcome = "raised", !.raised_at = line]

\* The rows of a table: one per canonical name that is in the store.
rows(store) == {n \in Variants : has(store, n)}

\* The area table relative to the greatest area.
area_analysis_vs_max(store, r) ==
    LET max_area == Max(values(store, "estimated_area_ge"))
    IN  IF max_area = 0 THEN raise(r, 280)
        ELSE [r EXCEPT !.area_rel =
                 [n \in rows(store) |-> fmt2(get(store, n).estimated_area_ge, max_area)]]

\* 1. AREA ANALYSIS.  The first row divides by min_area.
area_analysis(store, r) ==
    LET min_area == Min(values(store, "estimated_area_ge"))
    IN  IF min_area = 0 THEN raise(r, 280)
        ELSE [r EXCEPT !.area_rel =
                 [n \in rows(store) |-> fmt2(get(store, n).estimated_area_ge, min_area)]]

\* 2. TIMING ANALYSIS.  Each row divides max_delay by its own delay.
timing_analysis(store, r) ==
    LET max_delay == Max(values(store, "critical_path_delay_ns"))
    IN  IF \E n \in rows(store) : get(store, n).critical_path_delay_ns = 0
        THEN raise(r, 295)
        ELSE [r EXCEPT !.speedup =
                 [n \in rows(store) |-> fmt2(max_delay, get(store, n).critical_path_delay_ns)]]

\* 3. POWER CONSUMPTION.  The first row divides by min_power.
power_analysis(store, r) ==
    LET min_power == Min(values(store, "estimated_power_mw"))
    IN  IF min_power = 0 THEN raise(r, 311)
        ELSE [r EXCEPT !.power_rel =
                 [n \in rows(store) |-> fmt2(get(store, n).estimated_power_mw, min_power)]]

\* 5. SPEEDUP ANALYSIS, first pair.
classical_wallace(store, r) ==
    IF has(store, "Classical") /\ has(store, "Wallace")
    THEN LET c_delay == get(store, "Classical").critical_path_delay_ns
             w_delay == get(store, "Wallace").critical_path_delay_ns
             rd == [r EXCEPT !.pair_reads = @ \cup {"Classical", "Wallace"}]
         IN  IF w_delay = 0 THEN raise(rd, 341)
             ELSE [rd EXCEPT !.wallace_vs_classical = <<fmt2(c_delay, w_delay)>>]
    ELSE r

\* 5. SPEEDUP ANALYSIS, second pair.
classical_dadda(store, r) ==
    IF has(store, "Classical") /\ has(store, "Dadda")
    THEN LET c_delay == get(store, "Classical").critical_path_delay_ns
             d_delay == get(store, "Dadda").critical_path_delay_ns
             rd == [r EXCEPT !.pair_reads = @ \cup {"Classical", "Dadda"}]
         IN  IF d_delay = 0 THEN raise(rd, 346)
             ELSE [rd EXCEPT !.dadda_vs_classical = <<fmt2(c_delay, d_delay)>>]
    ELSE r

\* 5. SPEEDUP ANALYSIS, third pair: <<timing_diff, area_saving>>.
wallace_dadda(store, r) ==
    IF has(store, "Wallace") /\ has(store, "Dadda")
    THEN LET w_area == get(store, "Wallace").estimated_area_ge
             d_area == get(store, "Dadda").estimated_area_ge
             w_delay == get(store, "Wallace").critical_path_delay_ns
             d_delay == get(store, "Dadda").critical_path_delay_ns
             diff == IF w_delay >= d_delay THEN w_delay - d_delay ELSE d_delay - w_delay
             rd == [r EXCEPT !.pair_reads = @ \cup {"Wallace", "Dadda"}]
         IN  IF min(w_delay, d_delay) = 0 THEN raise(rd, 354)
             ELSE IF w_area = 0 THEN raise(rd, 355)
             ELSE [rd EXCEPT !.wallace_vs_dadda =
                      <<fmt_pct1(diff, min(w_delay, d_delay)), fmt_pct1(w_area - d_area, w_area)>>]
    ELSE r

\* A recommendation that names the fastest variant of the store.
recommendation_by_speed(store, r) ==
    [r EXCEPT !.best_speed = <<min_item(store, "critical_path_delay_ns")>>,
              !.best_area = <<min_item(store, "estimated_area_ge")>>,
              !.best_power = <<min_item(store, "estimated_power_mw")>>,
              !.recommendation = <<min_item(store, "critical_path_delay_ns")>>,
              !.outcome = "completed"]

\* 6. RECOMMENDATION: the three minima, then the fixed text.
recommendation(store, r) ==
    [r EXCEPT !.best_speed = <<min_item(store, "critical_path_delay_ns")>>,
              !.best_area = <<min_item(store, "estimated_area_ge")>>,
              !.best_power = <<min_item(store, "estimated_power_mw")>>,
              !.recommendation = <<"Dadda">>,
              !.outcome = "completed"]

\* The sections in order; one that raises ends the report.
generate_report(store) ==
    IF store = <<>> THEN [NoReport EXCEPT !.outcome = "no_results"]
    ELSE LET r1 == area_analysis(store, NoReport)
             r2 == IF r1.outcome = "raised" THEN r1 ELSE timing_analysis(store, r1)
             r3 == IF r2.outcome = "raised" THEN r2 ELSE power_analysis(store, r2)
             r4 == IF r3.outcome = "raised" THEN r3 ELSE classical_wallace(store, r3)
             r5 == IF r4.outcome = "raised" THEN r4 ELSE classical_dadda(store, r4)
             r6 == IF r5.outcome = "raised" THEN r5 ELSE wallace_dadda(store, r5)
         IN  IF r6.outcome = "raised" THEN r6 ELSE recommendation(store, r6)

\* asdict(res): the record, field by field.
asdict(res) == res

\* save_results: {name: asdict(res)}, written as one document.
save_results(store) == [i \in 1..Len(store) |-> <<store[i].name, asdict(store[i])>>]

-----------------------------------------------------------------------------
(* analyze_all *)

\* The records of the branch taken when check_yosys returns False.
theoretical(name) ==
    IF name = "Classical"
    THEN [SynthesisResults(name) EXCEPT
            !.total_cells = 2048, !.estimated_area_ge = 500000,
            !.critical_path_delay_ns = 960, !.estimated_power_mw = 1500000,
            !.max_frequency_mhz = [num |-> 1042, den |-> 10]]
    ELSE IF name = "Dadda"
    THEN [SynthesisResults(name) EXCEPT
            !.total_cells = 1800, !.estimated_area_ge = 420000,
            !.critical_path_delay_ns = 675, !.estimated_power_mw = 1250000,
            !.max_frequency_mhz = [num |-> 1481, den |-> 10]]
    ELSE [SynthesisResults(name) EXCEPT
            !.total_cells = 2200, !.estimated_area_ge = 510000,
            !.critical_path_delay_ns = 675, !.estimated_power_mw = 1480000,
            !.max_frequency_mhz = [num |-> 1481, den |-> 10]]

\* The fallback branch without its last assignment.
theoretical_store_partial ==
    put(put(<<>>, "Classical", theoretical("Classical")), "Dadda", theoretical("Dadda"))

theoretical_store ==
    put(put(put(<<>>, "Classical", theoretical("Classical")),
            "Dadda", theoretical("Dadda")),
        "Wallace", theoretical("Wallace"))

\* What the tool may print, as the run and the store's callers see it.
ToolOutputs ==
    { <<>>,
      <<HeadingLine("hier"), CountLine(FALSE, 3, "cells"), CountLine(FALSE, 4, "wires"),
        CountLine(FALSE, 2, "public wires"), CountLine(FALSE, 1, "$_AND_"),
        CountLine(FALSE, 1, "$_XOR_")>>,
      <<HeadingLine("sep"), CountLine(FALSE, 5, "cells"),
        HeadingLine("hier"), CountLine(FALSE, 5, "cells"), CountLine(FALSE, 2, "$_AND_"),
        HeadingLine("hier"), CountLine(FALSE, 2, "cells"), CountLine(FALSE, 1, "$_NAND_"),
        CountLine(FALSE, 1, "$_NOT_")>>,
      <<HeadingLine("hier"), CountLine(FALSE, 1, "cells"), CountLine(FALSE, 2, "$_MUX_")>> }

NotRun == [outcome |-> "not_run", stdout |-> <<>>]

\* The script of analyze_all: the variant after this one, or the report.
next_step(name) ==
    IF name = "Classical" THEN "Dadda"
    ELSE IF name = "Dadda" THEN "Wallace"
    ELSE "report"

\* synthesize_design on a finished subprocess: parse its stdout and estimate,
\* whatever its return code.
synthesize_design(name, stdout) == fill_estimates(parse_yosys_output(name, stdout))

\* synthesize_design returning None on a non-zero return code too.
synthesis_result_strict(name, p) ==
    IF p.outcome # "exit_zero" THEN <<>>
    ELSE <<synthesize_design(name, p.stdout)>>

\* synthesize_design's return value: <<>> is None.
synthesis_result(name, p) ==
    IF p.outcome \in {"TimeoutExpired", "Exception"} THEN <<>>
    ELSE <<synthesize_design(name, p.stdout)>>

Init ==
    /\ pc = "check_yosys"
    /\ has_yosys = "unknown"
    /\ proc = [n \in Variants |-> NotRun]
    /\ results = <<>>
    /\ report = NoReport
    /\ saved = <<>>
    /\ text = <<>>
    /\ parsed = <<>>
    /\ rec = <<>>
    /\ est = <<>>

\* check_yosys, and the branch of analyze_all it selects.  An error of
\* subprocess.run other than FileNotFoundError is not caught.
CheckYosys ==
    /\ pc = "check_yosys"
    /\ \E answer \in {"found", "FileNotFoundError", "OSError"} :
          \/ /\ answer = "found"
             /\ has_yosys' = "yes"
             /\ pc' = "Classical"
             /\ results' = results
          \/ /\ answer = "FileNotFoundError"
             /\ has_yosys' = "no"
             /\ results' = theoretical_store
             /\ pc' = "report"
          \/ /\ answer = "OSError"
             /\ has_yosys' = "unknown"
             /\ pc' = "aborted"
             /\ results' = results
    /\ UNCHANGED <<proc, report, saved, text, parsed, rec, est>>

Outcomes ==
    {[outcome |-> "TimeoutExpired", stdout |-> <<>>], [outcome |-> "Exception", stdout |-> <<>>]}
    \cup {[outcome |-> o, stdout |-> out] : o \in {"exit_zero", "exit_nonzero"}, out \in ToolOutputs}

\* One  x = self.synthesize_design(...); if x: self.results[...] = x  of analyze_all.
Synthesize(name) ==
    /\ pc = name
    /\ \E p \in Outcomes :
          LET result == synthesis_result(name, p)
          IN  /\ proc' = [proc EXCEPT ![name] = p]
              /\ results' = IF result = <<>> THEN results ELSE put(results, name, result[1])
    /\ pc' = next_step(name)
    /\ UNCHANGED <<has_yosys, report, saved, text, parsed, rec, est>>

\* generate_report, with the save_results it ends in; what it raises is not
\* caught by its caller.
run_report ==
    /\ report' = generate_report(results)
    /\ saved' = IF report'.outcome = "completed" THEN Append(saved, save_results(results)) ELSE saved
    /\ pc' = IF report'.outcome = "raised" THEN "aborted" ELSE "done"

GenerateReport ==
    /\ pc = "report"
    /\ run_report
    /\ UNCHANGED <<has_yosys, proc, results, text, parsed, rec, est>>

Next ==
    \/ CheckYosys
    \/ \E name \in Variants : Synthesize(name)
    \/ GenerateReport

Spec == Init /\ [][Next]_vars

-----------------------------------------------------------------------------
(* The parser on bounded texts *)

Tokens ==
    {"cells", "wires", "public wires", "$_AND_", "$_OR_", "$_XOR_", "$_NOT_",
     "$_NAND_", "$_NOR_", "$_XNOR_", "$_MUX_", "$add", "$_ANDNOT_"}

\* The lines of a text whose count lines all name the token tok.
Lines(tok) ==
    {HeadingLine("hier"), HeadingLine("hier_in"), HeadingLine("sep"), HeadingLine("blank")}
    \cup {CountLine(FALSE, n, tok) : n \in 1..MaxCount}
    \cup {CountLine(TRUE, 1, tok)}

Idle ==
    /\ pc = "idle"
    /\ has_yosys = "unknown"
    /\ proc = [n \in Variants |-> NotRun]
    /\ results = <<>>
    /\ report = NoReport
    /\ saved = <<>>

InitParse ==
    /\ Idle
    /\ \E tok \in Tokens, k \in 0..MaxLines : text \in [1..k -> Lines(tok)]
    /\ parsed = <<>>
    /\ rec = <<>>
    /\ est = <<>>

Parse ==
    /\ parsed = <<>>
    /\ parsed' = <<parse_yosys_output("Classical", text)>>
    /\ UNCHANGED <<pc, has_yosys, proc, results, report, saved, text, rec, est>>

NextParse == Parse

SpecParse == InitParse /\ [][NextParse]_vars

-----------------------------------------------------------------------------
(* The estimators on bounded records *)

Names == {"Classical", "Dadda", "Wallace", "Booth"}

EstimatorInput(nm, tc, g) ==
    [SynthesisResults(nm) EXCEPT
        !.total_cells = tc,
        !.and_gates = g[1], !.or_gates = g[2], !.xor_gates = g[3],
        !.not_gates = g[4], !.nand_gates = g[5], !.nor_gates = g[6],
        !.xnor_gates = g[7], !.mux_gates = g[8], !.add_cells = g[9]]

InitEstimate ==
    /\ Idle
    /\ text = <<>>
    /\ parsed = <<>>
    /\ \E nm \in Names, tc \in 0..MaxCells, g \in [1..9 -> 0..MaxGates] :
          rec = EstimatorInput(nm, tc, g)
    /\ est = <<>>

Estimate ==
    /\ est = <<>>
    /\ est' = <<fill_estimates(rec)>>
    /\ UNCHANGED <<pc, has_yosys, proc, results, report, saved, text, parsed, rec>>

NextEstimate == Estimate

SpecEstimate == InitEstimate /\ [][NextEstimate]_vars

-----------------------------------------------------------------------------
(* generate_report on the stores a caller of the class can build: results is
   a plain attribute, filled item by item in any order *)

\* The records synthesize_design and the fallback branch can produce for a name.
Producible(name) ==
    {synthesize_design(name, out) : out \in ToolOutputs} \cup {theoretical(name)}

InitReport ==
    /\ pc = "caller"
    /\ has_yosys = "unknown"
    /\ proc = [n \in Variants |-> NotRun]
    /\ results = <<>>
    /\ report = NoReport
    /\ saved = <<>>
    /\ text = <<>>
    /\ parsed = <<>>
    /\ rec = <<>>
    /\ est = <<>>

Insert(name) ==
    /\ pc = "caller"
    /\ \E result \in Producible(name) : results' = put(results, name, result)
    /\ UNCHANGED <<pc, has_yosys, proc, report, saved, text, parsed, rec, est>>

CallGenerateReport ==
    /\ pc = "caller"
    /\ run_report
    /\ UNCHANGED <<has_yosys, proc, results, text, parsed, rec, est>>

NextReport ==
    \/ \E name \in Variants : Insert(name)
    \/ CallGenerateReport

SpecReport == InitReport /\ [][NextReport]_vars

-----------------------------------------------------------------------------
(* Claims *)

Reported == report.outcome # "none"

BothPresent(a, b) == has(results, a) /\ has(results, b)

\* C1: generate_report never raises, for any store holding any subset of the
\* three variants, each record being one the parser and the estimators can
\* produce, the all-zero record (area 0, power 0) included.
C1_ReportNeverRaises == report.outcome # "raised"

\* C2: a pairwise comparison is computed if and only if both variants of the
\* pair are in the store, and the record of an absent Classical is never read.
C2_PairComparedIffBothPresent ==
    Reported =>
        /\ (report.wallace_vs_classical # <<>>) <=> BothPresent("Classical", "Wallace")
        /\ (report.dadda_vs_classical # <<>>) <=> BothPresent("Classical", "Dadda")
        /\ (report.wallace_vs_dadda # <<>>) <=> BothPresent("Wallace", "Dadda")
        /\ ~has(results, "Classical") => "Classical" \notin report.pair_reads

\* A section starts at a heading at column 0, and at a heading inside a line
\* when no section is open there: a section, once started by a heading, stays
\* open until a line that starts with '==='.
SectionOpenBefore(t, i) ==
    \E j \in 1..(i - 1) :
        /\ IsHierarchyHeading(t[j])
        /\ \A k \in (j + 1)..(i - 1) : ~ClosesSection(t[k])

StartsSection(t, i) ==
    \/ t[i].kind = "hier"
    \/ t[i].kind = "hier_in" /\ ~SectionOpenBefore(t, i)

SectionStarts(t) == {i \in 1..Len(t) : StartsSection(t, i)}

\* The lines of the last section: after its heading, before the next line
\* that starts with '==='.
LastSectionLines(t) ==
    LET s == Max(SectionStarts(t))
    IN  {k \in (s + 1)..Len(t) : \A j \in (s + 1)..k : ~ClosesSection(t[j])}

SummaryWord(f) ==
    CASE f = "total_cells" -> "cells"
      [] f = "wires" -> "wires"
      [] f = "public_wires" -> "public wires"

GateToken(f) ==
    CASE f = "and_gates" -> "$_AND_"
      [] f = "or_gates" -> "$_OR_"
      [] f = "xor_gates" -> "$_XOR_"
      [] f = "not_gates" -> "$_NOT_"
      [] f = "nand_gates" -> "$_NAND_"
      [] f = "nor_gates" -> "$_NOR_"
      [] f = "xnor_gates" -> "$_XNOR_"
      [] f = "mux_gates" -> "$_MUX_"
      [] f = "add_cells" -> "$add"

\* What the lines in L say about field f: the first summary line of its word,
\* the last gate line of its token, 0 when no line of L names it.
CountIn(t, L, f) ==
    IF f \in {"total_cells", "wires", "public_wires"}
    THEN LET at == {k \in L : t[k].kind = "count" /\ t[k].tok = SummaryWord(f)}
         IN  IF at = {} THEN 0 ELSE t[Min(at)].n
    ELSE LET at == {k \in L : t[k].kind = "count" /\ ~t[k].neg /\ t[k].tok = GateToken(f)}
         IN  IF at = {} THEN 0 ELSE t[Max(at)].n

\* C3: with two or more hierarchy sections in the text, every structural
\* count of the parsed record is the one the last section gives: lines of an
\* earlier section and lines after the heading that closes the last section
\* contribute nothing, and a field the last section does not name is 0.
C3_LastSectionOnly ==
    (parsed # <<>> /\ Cardinality(SectionStarts(text)) >= 2) =>
        \A f \in StructuralFields :
            parsed[1][f] = CountIn(text, LastSectionLines(text), f)

\* Two sections, a count line in the earlier one, and a field taken from the
\* last one with another value.
C3_Witness ==
    /\ parsed # <<>>
    /\ Cardinality(SectionStarts(text)) >= 2
    /\ \E k \in 1..Len(text), f \in StructuralFields :
          /\ k < Max(SectionStarts(text))
          /\ text[k].kind = "count"
          /\ parsed[1][f] # 0
          /\ parsed[1][f] # text[k].n

\* C4: the parser returns a record for every text, every structural count of
\* it is >= 0, and all of them are 0 when the text has no hierarchy section.
C4_ParserTotal ==
    parsed # <<>> =>
        /\ \A f \in StructuralFields : parsed[1][f] >= 0
        /\ (\A i \in 1..Len(text) : ~IsHierarchyHeading(text[i])) =>
               \A f \in StructuralFields : parsed[1][f] = 0

\* A section whose only count line does not match the pattern (it carries a
\* sign), parsed.
C4_Witness ==
    /\ parsed # <<>>
    /\ Len(text) >= 2
    /\ text[1].kind = "hier"
    /\ \A k \in 2..Len(text) : text[k].kind = "count" /\ text[k].neg

\* C5: the remainder priced as other cells, in the area and in the power, is
\* max(0, total_cells - classified sum): never negative, 0 when the classified
\* sum exceeds total_cells, so it never subtracts.
C5_RemainderClamped ==
    est # <<>> =>
        LET known == known_gates(rec)
            remainder == IF rec.total_cells > known THEN rec.total_cells - known ELSE 0
        IN  /\ est[1].estimated_area_ge - classified_area(rec) = 200 * remainder
            /\ est[1].estimated_power_mw - 2 * classified_cap(rec) = 5 * remainder
            /\ est[1].estimated_area_ge >= classified_area(rec)
            /\ est[1].estimated_power_mw >= 2 * classified_cap(rec)

\* A record whose classified sum exceeds its total, estimated.
C5_Witness ==
    /\ est # <<>>
    /\ rec.total_cells > 0
    /\ known_gates(rec) > rec.total_cells
    /\ est[1].estimated_area_ge = classified_area(rec)

\* C6: at the end of a run every record of the store with delay d > 0 has
\* max_frequency_mhz = 1000 / d to 1e-9 relative, tool-derived or placeholder.
\* With d in 0.01 ns, |num/den - 100000/d| <= 1e-9 * 100000/d.
C6_FrequencyIsInverseOfDelay ==
    pc \in {"done", "aborted"} =>
        \A i \in 1..Len(results) :
            LET d == results[i].critical_path_delay_ns
                f == results[i].max_frequency_mhz
                gap == f.num * d - 100000 * f.den
            IN  d > 0 => (IF gap < 0 THEN -gap ELSE gap) * 10000 <= f.den

\* C7: the delay is a function of the name only: 9.6 ns for Classical, 4.25 ns
\* for Wallace and for Dadda, 5.0 ns for any other name, whatever the counts.
C7_DelayByNameOnly ==
    est # <<>> =>
        est[1].critical_path_delay_ns =
            (CASE rec.name = "Classical" -> 960
               [] rec.name \in {"Wallace", "Dadda"} -> 425
               [] OTHER -> 500)

\* A Wallace record with gates, estimated at 4.25 ns.
C7_Witness ==
    /\ est # <<>>
    /\ rec.name = "Wallace"
    /\ rec.add_cells > 0
    /\ rec.total_cells > 0
    /\ est[1].critical_path_delay_ns = 425

\* The names holding the least value of a field, and the first of a set of
\* names in canonical order and in the store's order.
Holders(field) == {n \in keys(results) : get(results, n)[field] = Min(values(results, field))}

CanonicalFirst(S) == CanonicalOrder[Min({i \in 1..Len(CanonicalOrder) : CanonicalOrder[i] \in S})]

InsertedFirst(S) == results[Min({i \in 1..Len(results) : results[i].name \in S})].name

InCanonicalOrder ==
    \A i, j \in 1..Len(results) :
        i < j => \E a, b \in 1..Len(CanonicalOrder) :
                    a < b /\ CanonicalOrder[a] = results[i].name /\ CanonicalOrder[b] = results[j].name

Least(field) == Min(values(results, field))

Greatest(field) == Max(values(results, field))

\* C9 as stated: each of the three tables prints, for a present variant, its
\* value over the least value of the metric: 1.00x for the variant holding the
\* least, at least 1.00x for every other.
C9_RelativeToMinimum ==
    report.outcome = "completed" =>
        \A n \in keys(results) :
            /\ report.area_rel[n] = fmt2(get(results, n).estimated_area_ge, Least("estimated_area_ge"))
            /\ report.speedup[n] = fmt2(get(results, n).critical_path_delay_ns, Least("critical_path_delay_ns"))
            /\ report.power_rel[n] = fmt2(get(results, n).estimated_power_mw, Least("estimated_power_mw"))

\* C9 as amended: the area and the power tables print value over least value
\* (1.00x for the least, at least 1.00x for the others); the timing table
\* prints the greatest delay over the variant's delay: 1.00x for the slowest
\* variant, at least 1.00x for the others.
C9_RelativeFigures ==
    report.outcome = "completed" =>
        \A n \in keys(results) :
            /\ report.area_rel[n] = fmt2(get(results, n).estimated_area_ge, Least("estimated_area_ge"))
            /\ report.power_rel[n] = fmt2(get(results, n).estimated_power_mw, Least("estimated_power_mw"))
            /\ report.speedup[n] = fmt2(Greatest("critical_path_delay_ns"), get(results, n).critical_path_delay_ns)
            /\ report.area_rel[n] >= 100
            /\ report.power_rel[n] >= 100
            /\ report.speedup[n] >= 100
            /\ n \in Holders("estimated_area_ge") => report.area_rel[n] = 100
            /\ n \in Holders("estimated_power_mw") => report.power_rel[n] = 100
            /\ get(results, n).critical_path_delay_ns = Greatest("critical_path_delay_ns")
                  => report.speedup[n] = 100

\* A completed report of tool-derived records with unequal areas, powers and
\* delays.
C9_Witness ==
    /\ report.outcome = "completed"
    /\ has_yosys = "yes"
    /\ \E n \in keys(results) : report.area_rel[n] > 100
    /\ \E n \in keys(results) : report.power_rel[n] > 100
    /\ \E n \in keys(results) : report.speedup[n] > 100

StoreIsFinal == has_yosys = "yes" /\ pc \in {"report", "done", "aborted"}

\* C10 as stated: a variant whose tool invocation timed out, raised or exited
\* with a non-zero status is absent from the store at the end of the run, and
\* every other variant is in it with the record its own output gives.
C10_FailedVariantAbsent ==
    StoreIsFinal =>
        \A n \in Variants :
            IF proc[n].outcome = "exit_zero"
            THEN has(results, n) /\ get(results, n) = synthesize_design(n, proc[n].stdout)
            ELSE ~has(results, n)

\* C10 as amended: a variant whose invocation timed out or raised is absent; a
\* variant whose invocation exited, with status zero or not, is in the store
\* with the record its own stdout gives, whatever happened to the others.
C10_OnlyTimeoutOrRaiseOmits ==
    StoreIsFinal =>
        /\ \A n \in Variants :
              IF proc[n].outcome \in {"exit_zero", "exit_nonzero"}
              THEN has(results, n) /\ get(results, n) = synthesize_design(n, proc[n].stdout)
              ELSE ~has(results, n)
        /\ Len(results) = Cardinality(keys(results))

\* A run in which Classical timed out, Dadda exited with a non-zero status and
\* printed a report, and Wallace exited with status zero: Dadda is stored.
C10_Witness ==
    /\ StoreIsFinal
    /\ proc["Classical"].outcome = "TimeoutExpired"
    /\ proc["Dadda"].outcome = "exit_nonzero"
    /\ proc["Dadda"].stdout # <<>>
    /\ proc["Wallace"].outcome = "exit_zero"
    /\ keys(results) = {"Dadda", "Wallace"}

\* C11: when check_yosys returns False the run does not fail: the store holds
\* exactly Classical, Dadda and Wallace, each record has the fields of a
\* tool-derived record, and generate_report and save_results run on it to
\* their end as they do on tool-derived results.
C11_FallbackRunCompletes ==
    has_yosys = "no" =>
        /\ pc \in {"report", "done"}
        /\ Len(results) = 3
        /\ keys(results) = Variants
        /\ \A i \in 1..Len(results) :
              DOMAIN results[i] = DOMAIN synthesize_design(results[i].name, <<>>)
        /\ pc = "done" =>
              /\ report = generate_report(results)
              /\ report.outcome = "completed"
              /\ saved = <<save_results(results)>>

\* A finished run without the tool, its three placeholder records saved.
C11_Witness ==
    /\ has_yosys = "no"
    /\ pc = "done"
    /\ Len(saved) = 1
    /\ Len(saved[1]) = 3

AllZero(r) == r.total_cells = 0 /\ known_gates(r) = 0

\* C12: an all-zero record named Classical is estimated at area 0.0, delay
\* 9.6 ns, frequency 1000 / 9.6 MHz (104.17 to two places) and power 0.0; any
\* all-zero record gets area 0 and power 0 whatever its name.
C12_AllZeroRecord ==
    (est # <<>> /\ AllZero(rec)) =>
        /\ est[1].estimated_area_ge = 0
        /\ est[1].estimated_power_mw = 0
        /\ rec.name = "Classical" =>
              /\ est[1].critical_path_delay_ns = 960
              /\ est[1].max_frequency_mhz.num * 960 = 100000 * est[1].max_frequency_mhz.den
              /\ fmt2(est[1].max_frequency_mhz.num, est[1].max_frequency_mhz.den) = 10417

\* The all-zero Classical record, estimated.
C12_Witness ==
    /\ est # <<>>
    /\ AllZero(rec)
    /\ rec.name = "Classical"
    /\ est[1].estimated_area_ge = 0
    /\ est[1].critical_path_delay_ns = 960

RunEnded == pc \in {"done", "aborted"}

\* C14: every run serializes the store exactly once, after the last insert,
\* whatever the outcome of the variants, a run that ends with an empty store
\* included, and the store is the one serialized from then on.
C14_SerializedOnceAtEnd ==
    /\ Len(saved) <= 1
    /\ Len(saved) = 1 => saved[1] = save_results(results)
    /\ RunEnded => Len(saved) = 1

StoredRecordsKept ==
    \A n \in keys(results) : has(results', n) /\ get(results', n) = get(results, n)

DerivedFieldsSet(r) ==
    /\ r.critical_path_delay_ns > 0
    /\ r.max_frequency_mhz.num > 0
    /\ has_yosys = "yes" =>
          /\ r.estimated_area_ge = calculate_area(r)
          /\ r.critical_path_delay_ns = estimate_critical_path(r)
          /\ r.estimated_power_mw = estimate_power(r)
          /\ r.max_frequency_mhz = frequency_of(r.critical_path_delay_ns)

\* C15: a record is in the store only with its four derived fields computed,
\* and no later step of the run (the other variants, generate_report,
\* save_results) changes or removes a record that is in the store.
C15_WriteOnce ==
    /\ [](\A i \in 1..Len(results) : DerivedFieldsSet(results[i]))
    /\ [][StoredRecordsKept]_vars

\* A finished run of the tool with three records stored and the report saved.
C15_Witness ==
    /\ has_yosys = "yes"
    /\ pc = "done"
    /\ Len(results) = 3
    /\ Len(saved) = 1
    /\ results[1].estimated_area_ge # results[2].estimated_area_ge

\* C16: the recommendation generate_report emits is the same for every store:
\* it names Dadda whatever the areas, delays and powers and whichever variants
\* are present, and every report that runs to its end emits it.
C16_RecommendationFixed ==
    /\ report.recommendation # <<>> => report.recommendation = <<"Dadda">>
    /\ report.outcome = "completed" => report.recommendation = <<"Dadda">>

\* Dadda is not in the store, Classical is fastest, smallest and least in
\* power, and Dadda is recommended.
C16_Witness ==
    /\ report.outcome = "completed"
    /\ ~has(results, "Dadda")
    /\ report.best_speed = <<"Classical">>
    /\ report.best_area = <<"Classical">>
    /\ report.recommendation = <<"Dadda">>

=============================================================================
